---- MODULE Spec2Model ----
(***************************************************************************)
(* Verification model of jamcoder, a concatenative unit-selection speech   *)
(* synthesiser: the Typeme similarity tree (typemes.py), the phoneme       *)
(* inventory build (dataloader.py), unit selection (choose.py,             *)
(* jamcoder.py) and the crossfade synthesis loop (jamcoder.py).            *)
(***************************************************************************)
EXTENDS Integers, Sequences, FiniteSets, TLC

\* ------------------------------------------------------------------------
\* Bounds of the model
\* ------------------------------------------------------------------------
MaxNodes == 4
MaxNames == 3
MaxWords == 2
MaxTier == 3
MaxInstances == 3
MaxIntonation == 1
MaxNaiveWords == 1
MaxTargets == 2
MaxUnits == 2
MaxFives == 4
MaxTypemes == 3
MaxAdopts == 2
MaxFaultyTier == 1

\* ------------------------------------------------------------------------
\* State
\* ------------------------------------------------------------------------
VARIABLES
    tn,        \* Typeme: number of nodes; the nodes are 1..tn
    tparent,   \* Typeme.parent  (NoNode at a root)
    tname,     \* Typeme.name
    tdepth,    \* Typeme.depth
    tchildren, \* Typeme.children, a list of nodes per node
    adopts,    \* number of adopt calls made so far
    pcTypeme,  \* "ok" | "RecursionError"
    simA,      \* receiver of the last similarity call (NoNode before any call)
    simB,      \* argument of the last similarity call (NoNode = None)
    simRes     \* value of the last similarity call

typemeVars == <<tn, tparent, tname, tdepth, tchildren, adopts, pcTypeme,
                simA, simB, simRes>>

VARIABLES
    corpus,        \* the voice directory: one phonetic tier (labels) per item
    grid_dict,     \* PhonemeLoader.grid_dict: stems registered so far
    phoneme_dict,  \* PhonemeLoader.phoneme_dict: name -> instances
    stem,          \* item the build loop is at (index into corpus)
    interval,      \* interval the build loop is at (0-based, as in the code)
    pre,           \* loop variable pre of the build
    faults,        \* the voice directory: per item "ok" or what is wrong
                   \*   with it ("no_wav" | "bad_grid" | "bad_wav")
    loader,        \* "mem" (PhonemeMemLoader) | "disk" (PhonemeDiskLoader)
    pcBuild        \* "word" | "interval" | "done"

buildVars == <<corpus, grid_dict, phoneme_dict, stem, interval, pre, faults,
               loader, pcBuild>>

VARIABLES
    selMethod,  \* selector of the last selection call ("" before any call)
    selTarget,  \* its target phoneme name
    selPre,     \* its pre argument (None or a name)
    selNex,     \* its nex argument (None or a name)
    selResult   \* position of the returned instance in the target's
                \* instance list, ReturnsNone or KeyError

selVars == <<selMethod, selTarget, selPre, selNex, selResult>>

VARIABLES
    target_phonemes,  \* naive_synthesis: g2p output after ' ' -> ''
    source_phonemes,  \* naive_synthesis: (word, interval) of the chosen units
    naive_i,          \* naive_synthesis: loop index i
    naive_pre,        \* naive_synthesis: loop variable pre
    pcNaive           \* "idle" | "loop" | "returned" | "KeyError"

naiveVars == <<target_phonemes, source_phonemes, naive_i, naive_pre, pcNaive>>

VARIABLES
    crossfade_overlap,  \* __main__: args.crossfade_overlap as <<num, den>>
    synth_n,            \* __main__: len(source_phonemes)
    synth_i,            \* __main__: loop index i (units processed so far)
    synth_wav,          \* __main__: output samples, each <<num, den>>
    source_lengths,     \* annotated length of each processed unit's interval
                        \*   in the unit's own word
    wav_length,         \* __main__: wav_length of the last iteration
    prev_wav_length,    \* __main__: prev_wav_length of the last iteration
    crossfade_length,   \* __main__: crossfade_length of the last iteration
    synth_branch,       \* branch the last iteration took
    load_result,        \* __main__: "" | "ok" | "failed", outcome of the
                        \*   try block that loads the pickle
    build_runs,         \* number of PhonemeMemLoader constructions so far
    dump_attempts,      \* number of attempts to write the pickle so far
    pcSynth             \* "idle" | "args" | "load" | "build" | "dump" |
                        \*   "select" | "loop" | "written" | "exit" |
                        \*   "OSError" | "KeyError" | "IndexError" |
                        \*   "ValueError"

synthVars == <<crossfade_overlap, synth_n, synth_i, synth_wav, source_lengths,
               wav_length, prev_wav_length, crossfade_length, synth_branch,
               load_result, build_runs, dump_attempts, pcSynth>>

vars == <<typemeVars, buildVars, selVars, naiveVars, synthVars>>

\* ------------------------------------------------------------------------
\* typemes.py
\* ------------------------------------------------------------------------
\* Python's None for a Typeme reference.
NoNode == 0

\* Outcome of a call that raises AttributeError (None.parent / None.name).
AttributeError == -2

\* Result of a call that has not been made yet.
NoResult == -3

\* A name (typeme name, phoneme name, label) is the sequence of its
\* characters, so that strip_stress can look at the last one; the name of a
\* category of the tree is kept as one symbol.
TypemeNames == << <<"root">>, <<"X">>, <<"Y">>, <<"X", "1">>, <<"X", "2">> >>

Nodes == 1..tn

\* Depth a constructor chain Typeme(name, depth, spawn=...) gives the nodes of
\* a forest whose roots are built with the default depth 0.
RECURSIVE ChainDepth(_, _)
ChainDepth(par, n) ==
    IF par[n] = NoNode THEN 0 ELSE ChainDepth(par, par[n]) + 1

\* First while loop of similarity: walk `side` up while depth > target.
RECURSIVE WalkUp(_, _, _)
WalkUp(side, depth, target) ==
    IF depth > target
    THEN IF side = NoNode \/ side = AttributeError
         THEN AttributeError
         ELSE WalkUp(tparent[side], depth - 1, target)
    ELSE side

\* Third while loop of similarity: compare names in lockstep.
RECURSIVE Lockstep(_, _, _)
Lockstep(self_side, other_side, self_depth) ==
    IF self_depth >= 0
    THEN IF self_side = NoNode \/ other_side = NoNode
         THEN AttributeError
         ELSE IF tname[self_side] = tname[other_side]
              THEN self_depth
              ELSE Lockstep(tparent[self_side], tparent[other_side],
                            self_depth - 1)
    ELSE -1

Min2(a, b) == IF a < b THEN a ELSE b

\* Variant of similarity that forgets to walk the other side up.
similarity_no_other_walk(self, other) ==
    IF other = NoNode THEN -1
    ELSE LET self_side == WalkUp(self, tdepth[self], tdepth[other])
         IN  IF self_side = AttributeError THEN AttributeError
             ELSE Lockstep(self_side, other,
                           Min2(tdepth[self], tdepth[other]))

\* Typeme.similarity(self, other)
similarity(self, other) ==
    IF other = NoNode THEN -1
    ELSE LET self_side  == WalkUp(self, tdepth[self], tdepth[other])
             self_depth == Min2(tdepth[self], tdepth[other])
             other_side == WalkUp(other, tdepth[other], self_depth)
         IN  IF self_side = AttributeError \/ other_side = AttributeError
             THEN AttributeError
             ELSE Lockstep(self_side, other_side, self_depth)

\* The forests the constructor can build with at most MaxNodes nodes: node i
\* hangs under an earlier node or is a root; names may coincide.
Forests(n) ==
    { f \in [par : [1..n -> 0..(n-1)], nam : [1..n -> 1..MaxNames]] :
        \A i \in 1..n : f.par[i] < i /\ f.nam[i] <= i }

\* The synthetic tree root -> {X, Y}, X -> {X1, X2}.
ExampleParent == <<0, 1, 1, 2, 2>>

\* The children lists of the tree with parents par: the nodes under p in the
\* order of their construction, from node c on.
RECURSIVE KidsFrom(_, _, _, _)
KidsFrom(par, n, p, c) ==
    IF c > n THEN << >>
    ELSE (IF par[c] = p THEN <<c>> ELSE << >>) \o KidsFrom(par, n, p, c + 1)

ChildrenOf(par, n) == [p \in 1..n |-> KidsFrom(par, n, p, 1)]

InitTypeme ==
    /\ \/ /\ tn \in 1..MaxNodes
          /\ \E f \in Forests(tn) :
                /\ tparent = f.par
                /\ tname = [i \in 1..tn |-> TypemeNames[f.nam[i]]]
          /\ tdepth = [i \in 1..tn |-> ChainDepth(tparent, i)]
          /\ tchildren = ChildrenOf(tparent, tn)
       \/ /\ tn = 5
          /\ tparent = ExampleParent
          /\ tname = TypemeNames
          /\ tdepth = [i \in 1..5 |-> ChainDepth(ExampleParent, i)]
          /\ tchildren = ChildrenOf(ExampleParent, 5)
    /\ adopts = 0
    /\ pcTypeme = "ok"
    /\ simA = NoNode
    /\ simB = NoNode
    /\ simRes = NoResult

\* One call a.similarity(b); b may be None (a behaviour makes one call:
\* similarity is pure).
Similarity ==
    \E a \in Nodes, b \in Nodes \cup {NoNode} :
        /\ simA = NoNode
        /\ simA' = a
        /\ simB' = b
        /\ simRes' = similarity(a, b)
        /\ UNCHANGED <<tn, tparent, tname, tdepth, tchildren, adopts, pcTypeme>>
        /\ UNCHANGED <<buildVars, selVars, naiveVars, synthVars>>

\* --- ground truth used by the claims about similarity ---

RECURSIVE PathToRoot(_)
PathToRoot(n) == IF n = NoNode THEN {} ELSE {n} \cup PathToRoot(tparent[n])

Shared(a, b) == PathToRoot(a) \cap PathToRoot(b)

DeepestSharedDepth(a, b) ==
    LET depths == {tdepth[n] : n \in Shared(a, b)}
    IN  CHOOSE d \in depths : \A e \in depths : e <= d

Called == simA # NoNode

\* C5: for nodes a, b of one tree, a.similarity(b) is the depth of the
\* deepest node lying on both paths to the root (names may coincide).
C5_SimilarityIsDeepestShared ==
    (Called /\ simB # NoNode /\ Shared(simA, simB) # {})
        => simRes = DeepestSharedDepth(simA, simB)

\* C6: similarity is symmetric on the nodes of one tree.
C6_Symmetric ==
    (Called /\ simB # NoNode /\ Shared(simA, simB) # {})
        => simRes = similarity(simB, simA)

C6_Witness ==
    /\ Called /\ simB # NoNode
    /\ tdepth[simA] < tdepth[simB]
    /\ simA \notin PathToRoot(simB)
    /\ Shared(simA, simB) # {}
    /\ \A m, n \in Nodes : m # n => tname[m] # tname[n]
    /\ simRes = DeepestSharedDepth(simA, simB)

\* C7: similarity returns -1 iff the argument is absent or the two nodes
\* share no ancestor.
C7_MinusOneIffNoShared ==
    Called => ((simRes = -1) <=> (simB = NoNode \/ Shared(simA, simB) = {}))

IdleTypeme ==
    /\ tn = 1
    /\ tparent = <<NoNode>>
    /\ tname = << <<"root">> >>
    /\ tdepth = <<0>>
    /\ tchildren = << << >> >>
    /\ adopts = 0
    /\ pcTypeme = "ok"
    /\ simA = NoNode
    /\ simB = NoNode
    /\ simRes = NoResult

\* ------------------------------------------------------------------------
\* dataloader.py
\* ------------------------------------------------------------------------
\* A label is the sequence of its characters; '' is << >>.
StressDigits == {"0", "1", "2", "3"}

\* Labels the annotations of the model use: 'A1' and '' (silence).
Labels == {<<"A", "1">>, << >>}

\* Python's None for the loop variable pre (no label is <<"None">>).
None == <<"None">>

\* Variant of strip_stress that strips every label's last character.
strip_stress_always(name) ==
    IF name = << >> THEN name ELSE SubSeq(name, 1, Len(name) - 1)

\* strip_stress(name)
strip_stress(name) ==
    IF name = << >> \/ name[Len(name)] \notin StressDigits
    THEN name
    ELSE SubSeq(name, 1, Len(name) - 1)

\* f0_heuristic(wav[wav_start:wav_end], sr, None): the pitch collaborator is
\* a deterministic function of the slice, which (word, interval) identifies.
f0_heuristic(word, ival) == (word + ival) % 2

Tiers == UNION { [1..n -> Labels] : n \in 0..MaxTier }

\* Phoneme.append(instance)
PhonemeAppend(dict, name, instance) ==
    [n \in DOMAIN dict \cup {name} |->
        IF n = name
        THEN (IF name \in DOMAIN dict THEN dict[name] ELSE << >>)
                 \o <<instance>>
        ELSE dict[n]]

\* Phoneme.__getitem__((word, interval)): position of that instance.
PhonemeIndex(instances, word, ival) ==
    CHOOSE k \in 1..Len(instances) :
        instances[k].word = word /\ instances[k].interval = ival

\* Variant of the nex patch that patches the group's first instance.
PatchNexFirst(dict, group, word, ival, name) ==
    [dict EXCEPT ![group] = [@ EXCEPT ![1].nex = name]]

\* (self.phoneme_dict[pre][stem, interval-1]).nex = name
PatchNex(dict, group, word, ival, name) ==
    [dict EXCEPT ![group] =
        [@ EXCEPT ![PhonemeIndex(@, word, ival)].nex = name]]

\* Body of the interval loop (dataloader.py 220-244): the inventory after
\* interval ival of word, labelled label, was scanned with loop variable p.
ScanInterval(dict, word, ival, p, label) ==
    LET name == strip_stress(label)
        instance == [word |-> word, interval |-> ival,
                     intonation |-> f0_heuristic(word, ival),
                     pre |-> IF p = None \/ p = << >> THEN << >> ELSE p,
                     nex |-> << >>]
        appended == PhonemeAppend(dict, name, instance)
    IN  IF p # None
        THEN PatchNex(appended, p, word, ival - 1, name)
        ELSE appended

\* A reference to the PhonemeInstance of (word, ival), as opposed to a label.
InstanceRef(word, ival) ==
    <<"PhonemeInstance", ToString(word), ToString(ival)>>

\* Body of the interval loop of PhonemeDiskLoader (dataloader.py 140-164):
\* pre is stored as it is (None at the first interval), nex starts as None
\* and is patched with the following PhonemeInstance itself.
DiskScanInterval(dict, word, ival, p, label) ==
    LET name == strip_stress(label)
        instance == [word |-> word, interval |-> ival,
                     intonation |-> f0_heuristic(word, ival),
                     pre |-> p,
                     nex |-> None]
        appended == PhonemeAppend(dict, name, instance)
    IN  IF p # None
        THEN PatchNex(appended, p, word, ival - 1, InstanceRef(word, ival))
        ELSE appended

\* The interval loop over one word from interval ival on.
RECURSIVE ScanWord(_, _, _, _, _)
ScanWord(dict, tier, word, ival, p) ==
    IF ival >= Len(tier) THEN dict
    ELSE ScanWord(ScanInterval(dict, word, ival, p, tier[ival + 1]),
                  tier, word, ival + 1, strip_stress(tier[ival + 1]))

\* The file loop from item word on: the inventory PhonemeMemLoader builds
\* (and the one a snapshot of it holds).
RECURSIVE ScanCorpus(_, _, _)
ScanCorpus(dict, c, word) ==
    IF word > Len(c) THEN dict
    ELSE ScanCorpus(ScanWord(dict, c[word], word, 0, None), c, word + 1)

InitBuild ==
    /\ \E n \in 0..MaxWords : corpus \in [1..n -> Tiers]
    /\ grid_dict = {}
    /\ phoneme_dict = << >>
    /\ stem = 1
    /\ interval = 0
    /\ pre = None
    /\ faults = [w \in 1..Len(corpus) |-> "ok"]
    /\ loader = "mem"
    /\ pcBuild = "word"

IdleBuild ==
    /\ corpus = << >>
    /\ grid_dict = {}
    /\ phoneme_dict = << >>
    /\ stem = 1
    /\ interval = 0
    /\ pre = None
    /\ faults = [w \in 1..Len(corpus) |-> "ok"]
    /\ loader = "mem"
    /\ pcBuild = "done"

\* ------------------------------------------------------------------------
\* choose.py, jamcoder.py: unit selection
\* ------------------------------------------------------------------------
\* A selector returned None (fell off its end).
ReturnsNone == 0

\* voice.get_phoneme(target) raised KeyError, which no selector catches.
KeyError == -1

\* No selection call has been made.
NoCall == -5

\* __main__ has not reached its argument check.
IdleSynth ==
    /\ crossfade_overlap = <<1, 1>>
    /\ synth_n = 0
    /\ synth_i = 0
    /\ synth_wav = << >>
    /\ source_lengths = << >>
    /\ wav_length = 0
    /\ prev_wav_length = 0
    /\ crossfade_length = 0
    /\ synth_branch = ""
    /\ load_result = ""
    /\ build_runs = 0
    /\ dump_attempts = 0
    /\ pcSynth = "idle"

\* naive_synthesis has not been called.
IdleNaive ==
    /\ target_phonemes = << >>
    /\ source_phonemes = << >>
    /\ naive_i = 0
    /\ naive_pre = None
    /\ pcNaive = "idle"

IdleSel ==
    /\ selMethod = ""
    /\ selTarget = << >>
    /\ selPre = None
    /\ selNex = None
    /\ selResult = NoCall

\* Typeme.__getitem__(name): first match of a pre-order walk, else None.
\* The children of a node are the nodes under it, in increasing order;
\* FirstChild is the loop over them from child c on.
RECURSIVE GetItem(_, _), FirstChild(_, _, _)
GetItem(node, name) ==
    IF tname[node] = name THEN node ELSE FirstChild(node, 1, name)

FirstChild(node, c, name) ==
    IF c > tn THEN NoNode
    ELSE IF tparent[c] # node THEN FirstChild(node, c + 1, name)
    ELSE LET found == GetItem(c, name)
         IN  IF found # NoNode THEN found ELSE FirstChild(node, c + 1, name)

\* typemes[label] if label else None  (typemes is the root, node 1)
Resolve(label) ==
    IF label = None \/ label = << >> THEN NoNode ELSE GetItem(1, label)

\* dual_similarity of one instance (choose.py 35-43)
DualSimilarity(inst, targ_pre, targ_nex) ==
    (IF targ_pre # NoNode
     THEN similarity(targ_pre, Resolve(inst.pre)) ELSE 0)
  + (IF targ_nex # NoNode
     THEN similarity(targ_nex, Resolve(inst.nex)) ELSE 0)

\* Variant of the best-instance update that ignores the intonation.
SimilarityBetterNoIntonation(instances, best, best_dual_similarity, k, dual_similarity) ==
    \/ best = ReturnsNone
    \/ dual_similarity > best_dual_similarity

\* Condition under which instance k replaces best_instance (choose.py 45-47).
SimilarityBetter(instances, best, best_dual_similarity, k, dual_similarity) ==
    \/ best = ReturnsNone
    \/ dual_similarity > best_dual_similarity
    \/ /\ dual_similarity = best_dual_similarity
       /\ instances[k].intonation < instances[best].intonation

\* The for loop of choose_dual_similarity; b is the pair
\* (best_instance, best_dual_similarity).
RECURSIVE SimilarityScan(_, _, _, _, _)
SimilarityScan(instances, targ_pre, targ_nex, k, b) ==
    IF k > Len(instances) THEN b.best
    ELSE LET score == DualSimilarity(instances[k], targ_pre, targ_nex)
         IN  SimilarityScan(instances, targ_pre, targ_nex, k + 1,
                IF SimilarityBetter(instances, b.best, b.score, k, score)
                THEN [best |-> k, score |-> score]
                ELSE b)

\* choose_dual_similarity(voice, typemes, target, pre, nex); the score of
\* "no best instance yet" is never read.
choose_dual_similarity(target, p, n) ==
    IF target \notin DOMAIN phoneme_dict THEN KeyError
    ELSE SimilarityScan(phoneme_dict[target], Resolve(p), Resolve(n), 1,
                        [best |-> ReturnsNone, score |-> 0])

\* The four running winners both/pre/nex/none_instance, all None.
NoBuckets == [both |-> ReturnsNone, pre |-> ReturnsNone,
              nex |-> ReturnsNone, none |-> ReturnsNone]

\* Variant of the bucket update that keeps the larger intonation.
KeepLargest(instances, cur, k) ==
    IF cur = ReturnsNone
       \/ instances[cur].intonation < instances[k].intonation
    THEN k ELSE cur

\* if x_instance == None or x_instance.intonation > instance.intonation
KeepSmallest(instances, cur, k) ==
    IF cur = ReturnsNone
       \/ instances[cur].intonation > instances[k].intonation
    THEN k ELSE cur

\* The for loop shared by choose_dual_equality and choose_phoneme.
RECURSIVE EqualityScan(_, _, _, _, _)
EqualityScan(instances, p, n, k, b) ==
    IF k > Len(instances) THEN b
    ELSE EqualityScan(instances, p, n, k + 1,
            IF p = instances[k].pre /\ n = instances[k].nex
            THEN [b EXCEPT !.both = KeepSmallest(instances, @, k)]
            ELSE IF p = instances[k].pre
            THEN [b EXCEPT !.pre = KeepSmallest(instances, @, k)]
            ELSE IF n = instances[k].nex
            THEN [b EXCEPT !.nex = KeepSmallest(instances, @, k)]
            ELSE [b EXCEPT !.none = KeepSmallest(instances, @, k)])

\* Variant of the final choice that looks at the both bucket last.
EqualityPickBothLast(instances, b) ==
    IF b.pre # ReturnsNone THEN b.pre
    ELSE IF b.nex # ReturnsNone THEN b.nex
    ELSE IF b.both # ReturnsNone THEN b.both
    ELSE b.none

\* Final choice of choose.choose_dual_equality (choose.py 89-102).
EqualityPick(instances, b) ==
    IF b.both # ReturnsNone THEN b.both
    ELSE IF b.pre # ReturnsNone
    THEN IF b.nex # ReturnsNone
         THEN IF instances[b.nex].intonation < instances[b.pre].intonation
              THEN b.nex
              ELSE b.pre
         ELSE b.pre
    ELSE IF b.nex # ReturnsNone THEN b.nex
    ELSE b.none

\* choose.choose_dual_equality(voice, typemes, target, pre, nex)
choose_dual_equality(target, p, n) ==
    IF target \notin DOMAIN phoneme_dict THEN KeyError
    ELSE EqualityPick(phoneme_dict[target],
            EqualityScan(phoneme_dict[target], p, n, 1, NoBuckets))

\* Final choice of jamcoder.choose_phoneme (jamcoder.py 46-54).
PhonemePick(b) ==
    IF b.both # ReturnsNone THEN b.both
    ELSE IF b.pre # ReturnsNone THEN b.pre
    ELSE IF b.nex # ReturnsNone THEN b.nex
    ELSE b.none

\* jamcoder.choose_phoneme(voice, typemes, target, pre, nex)
choose_phoneme(target, p, n) ==
    IF target \notin DOMAIN phoneme_dict THEN KeyError
    ELSE PhonemePick(EqualityScan(phoneme_dict[target], p, n, 1, NoBuckets))

\* Excerpt of standard_typeme_tree(): phonemes -> consonants ->
\* {nasals -> M, stops -> voiced_stops -> B}.
StandardParent == <<0, 1, 2, 3, 2, 5, 6>>
StandardName == << <<"phonemes">>, <<"consonants">>, <<"nasals">>, <<"M">>,
                   <<"stops">>, <<"voiced_stops">>, <<"B">> >>

StandardTypemes ==
    /\ tn = 7
    /\ tparent = StandardParent
    /\ tname = StandardName
    /\ tdepth = [i \in 1..7 |-> ChainDepth(StandardParent, i)]
    /\ tchildren = ChildrenOf(StandardParent, 7)
    /\ adopts = 0
    /\ pcTypeme = "ok"
    /\ simA = NoNode
    /\ simB = NoNode
    /\ simRes = NoResult

\* Context labels carried by the instances of the selection model.
InstancePre == {<< >>, <<"M">>}
InstanceNex == {<< >>, <<"M">>}

\* Context arguments of a selection call; 'Q' is in no tree.
TargetContext == {None, <<"M">>, <<"B">>, <<"Q">>}

\* Arguments of a selection call: the target 'A' is in the inventory, the
\* target 'Z' was never observed.
SelCalls ==
    [target : {<<"A">>}, pre : TargetContext, nex : TargetContext]
        \cup {[target |-> <<"Z">>, pre |-> None, nex |-> None]}

\* The instances of one phoneme drawn from context labels and intonations;
\* instance k comes from word k.
InstanceList(f) ==
    [k \in DOMAIN f |->
        [word |-> k,
         interval |-> IF f[k].pre = << >> THEN 0 ELSE 1,
         intonation |-> f[k].intonation,
         pre |-> f[k].pre,
         nex |-> f[k].nex]]

InitSel ==
    /\ corpus = << >>
    /\ grid_dict = {}
    /\ \E m \in 1..MaxInstances :
          \E f \in [1..m -> [pre : InstancePre, nex : InstanceNex,
                              intonation : 0..MaxIntonation]] :
              phoneme_dict = (<<"A">> :> InstanceList(f))
    /\ stem = 1
    /\ interval = 0
    /\ pre = None
    /\ faults = [w \in 1..Len(corpus) |-> "ok"]
    /\ loader = "mem"
    /\ pcBuild = "done"
    /\ IdleSel

\* One call of choose.choose_dual_similarity (a behaviour makes one
\* selection call: the selectors are pure).
ChooseDualSimilarity ==
    \E c \in SelCalls :
        /\ selMethod = ""
        /\ selMethod' = "dual_similarity"
        /\ selTarget' = c.target
        /\ selPre' = c.pre
        /\ selNex' = c.nex
        /\ selResult' = choose_dual_similarity(c.target, c.pre, c.nex)
        /\ UNCHANGED <<typemeVars, buildVars, naiveVars, synthVars>>

\* One call of choose.choose_dual_equality.
ChooseDualEquality ==
    \E c \in SelCalls :
        /\ selMethod = ""
        /\ selMethod' = "dual_equality"
        /\ selTarget' = c.target
        /\ selPre' = c.pre
        /\ selNex' = c.nex
        /\ selResult' = choose_dual_equality(c.target, c.pre, c.nex)
        /\ UNCHANGED <<typemeVars, buildVars, naiveVars, synthVars>>

\* One call of jamcoder.choose_phoneme.
ChoosePhoneme ==
    \E c \in SelCalls :
        /\ selMethod = ""
        /\ selMethod' = "choose_phoneme"
        /\ selTarget' = c.target
        /\ selPre' = c.pre
        /\ selNex' = c.nex
        /\ selResult' = choose_phoneme(c.target, c.pre, c.nex)
        /\ UNCHANGED <<typemeVars, buildVars, naiveVars, synthVars>>

InitSpecSel == InitSel /\ StandardTypemes /\ IdleNaive /\ IdleSynth

NextSimilaritySel == ChooseDualSimilarity

SpecSimilaritySel == InitSpecSel /\ [][NextSimilaritySel]_vars

NextEqualitySel == ChooseDualEquality \/ ChoosePhoneme

SpecEqualitySel == InitSpecSel /\ [][NextEqualitySel]_vars

\* ------------------------------------------------------------------------
\* jamcoder.py: naive_synthesis
\* ------------------------------------------------------------------------
\* What g2p emits in the model: the phoneme 'A1' and the space ' '.
G2pSymbols == {<<"A", "1">>, <<" ">>}

\* target_phonemes = ['' if p == ' ' else p for p in target_phonemes]
SpaceToEmpty(p) == IF p = <<" ">> THEN << >> ELSE p

\* The voice is a built inventory; naive_synthesis is entered with pre = None.
InitNaive ==
    /\ \E n \in 1..MaxNaiveWords : corpus \in [1..n -> Tiers]
    /\ grid_dict = 1..Len(corpus)
    /\ phoneme_dict = ScanCorpus(<< >>, corpus, 1)
    /\ stem = Len(corpus) + 1
    /\ interval = 0
    /\ pre = None
    /\ faults = [w \in 1..Len(corpus) |-> "ok"]
    /\ loader = "mem"
    /\ pcBuild = "done"
    /\ \E n \in 0..MaxTargets : \E g \in [1..n -> G2pSymbols] :
          target_phonemes = [k \in 1..n |-> SpaceToEmpty(g[k])]
    /\ source_phonemes = << >>
    /\ naive_i = 0
    /\ naive_pre = None
    /\ pcNaive = "loop"

\* nex and curr of iteration i (jamcoder.py 71-75); i is 0-based.
NaiveNex ==
    IF naive_i < Len(target_phonemes) - 1
    THEN strip_stress(target_phonemes[naive_i + 2])
    ELSE None

NaiveCurr == strip_stress(target_phonemes[naive_i + 1])

\* One iteration of the loop of naive_synthesis in which choose_phoneme
\* returns: the chosen instance (None if it fell off its end) is appended.
NaiveSelect ==
    /\ pcNaive = "loop"
    /\ naive_i < Len(target_phonemes)
    /\ LET chosen == choose_phoneme(NaiveCurr, naive_pre, NaiveNex)
       IN  /\ chosen # KeyError
           /\ source_phonemes' = Append(source_phonemes,
                 IF chosen = ReturnsNone THEN None
                 ELSE LET inst == phoneme_dict[NaiveCurr][chosen]
                      IN  <<inst.word, inst.interval>>)
    /\ naive_pre' = NaiveCurr
    /\ naive_i' = naive_i + 1
    /\ UNCHANGED <<target_phonemes, pcNaive>>
    /\ UNCHANGED <<typemeVars, buildVars, selVars, synthVars>>

\* One iteration in which voice.get_phoneme(target) raises KeyError: neither
\* choose_phoneme, naive_synthesis nor __main__ has a handler, the run ends.
NaiveKeyError ==
    /\ pcNaive = "loop"
    /\ naive_i < Len(target_phonemes)
    /\ choose_phoneme(NaiveCurr, naive_pre, NaiveNex) = KeyError
    /\ pcNaive' = "KeyError"
    /\ UNCHANGED <<target_phonemes, source_phonemes, naive_i, naive_pre>>
    /\ UNCHANGED <<typemeVars, buildVars, selVars, synthVars>>

\* return target_phonemes, source_phonemes
NaiveReturn ==
    /\ pcNaive = "loop"
    /\ naive_i >= Len(target_phonemes)
    /\ pcNaive' = "returned"
    /\ UNCHANGED <<target_phonemes, source_phonemes, naive_i, naive_pre>>
    /\ UNCHANGED <<typemeVars, buildVars, selVars, synthVars>>

NextNaive == NaiveSelect \/ NaiveKeyError \/ NaiveReturn

InitSpecNaive == InitNaive /\ StandardTypemes /\ IdleSel /\ IdleSynth

SpecNaive == InitSpecNaive /\ [][NextNaive]_vars

\* C8: a target phoneme that was never observed gives a 'no candidate'
\* result to the caller: selection returns (no KeyError escapes it) and the
\* run of naive_synthesis does not end on the unhandled lookup failure.
C8_UnknownIsNoCandidate ==
    /\ pcNaive # "KeyError"
    /\ \A k \in 1..Len(target_phonemes) :
          (pcNaive = "returned"
             /\ strip_stress(target_phonemes[k]) \notin DOMAIN phoneme_dict)
          => source_phonemes[k] = None

\* ------------------------------------------------------------------------
\* The inventory build as a state machine (PhonemeMemLoader.__init__)
\* ------------------------------------------------------------------------
\* for grid_file in grid_files: ... pre = None; self.grid_dict[stem] = ...
\* The wav exists, the TextGrid parses and the wav loads.
BeginWord ==
    /\ pcBuild = "word"
    /\ stem <= Len(corpus)
    /\ faults[stem] = "ok"
    /\ grid_dict' = grid_dict \cup {stem}
    /\ pre' = None
    /\ interval' = 0
    /\ pcBuild' = "interval"
    /\ UNCHANGED <<corpus, phoneme_dict, stem, faults, loader>>
    /\ UNCHANGED <<typemeVars, selVars, naiveVars, synthVars>>

\* Variant of the skip that registers the item before it skips it.
SkipRegistered(fault) ==
    /\ pcBuild = "word"
    /\ stem <= Len(corpus)
    /\ faults[stem] = fault
    /\ grid_dict' = grid_dict \cup {stem}
    /\ stem' = stem + 1
    /\ UNCHANGED <<corpus, phoneme_dict, interval, pre, faults, loader,
                   pcBuild>>
    /\ UNCHANGED <<typemeVars, selVars, naiveVars, synthVars>>

\* An item that fails one of the three checks: a warning and continue.
Skip(fault) ==
    /\ pcBuild = "word"
    /\ stem <= Len(corpus)
    /\ faults[stem] = fault
    /\ stem' = stem + 1
    /\ UNCHANGED <<corpus, grid_dict, phoneme_dict, interval, pre, faults,
                   loader, pcBuild>>
    /\ UNCHANGED <<typemeVars, selVars, naiveVars, synthVars>>

\* if not wav_file.exists(): continue
SkipNoWav == Skip("no_wav")

\* textgrids.TextGrid(grid_file) raises: continue
SkipBadGrid == Skip("bad_grid")

\* librosa.load(wav_file) raises: continue
SkipBadWav == Skip("bad_wav")

\* One iteration of: for interval in range(len(grid['phonetic']))
BuildInterval ==
    /\ pcBuild = "interval"
    /\ interval < Len(corpus[stem])
    /\ phoneme_dict' =
          IF loader = "mem"
          THEN ScanInterval(phoneme_dict, stem, interval, pre,
                            corpus[stem][interval + 1])
          ELSE DiskScanInterval(phoneme_dict, stem, interval, pre,
                                corpus[stem][interval + 1])
    /\ pre' = strip_stress(corpus[stem][interval + 1])
    /\ interval' = interval + 1
    /\ UNCHANGED <<corpus, grid_dict, stem, faults, loader, pcBuild>>
    /\ UNCHANGED <<typemeVars, selVars, naiveVars, synthVars>>

\* The interval loop of one item is exhausted: on to the next grid file.
EndWord ==
    /\ pcBuild = "interval"
    /\ interval >= Len(corpus[stem])
    /\ stem' = stem + 1
    /\ pcBuild' = "word"
    /\ UNCHANGED <<corpus, grid_dict, phoneme_dict, interval, pre, faults,
                   loader>>
    /\ UNCHANGED <<typemeVars, selVars, naiveVars, synthVars>>

\* The file loop is exhausted: self.num_phonemes = len(self.phoneme_dict)
EndBuild ==
    /\ pcBuild = "word"
    /\ stem > Len(corpus)
    /\ pcBuild' = "done"
    /\ UNCHANGED <<corpus, grid_dict, phoneme_dict, stem, interval, pre,
                   faults, loader>>
    /\ UNCHANGED <<typemeVars, selVars, naiveVars, synthVars>>

NextBuild == BeginWord \/ BuildInterval \/ EndWord \/ EndBuild

\* Either loader over a voice directory with faulty items.
FaultyTiers == UNION { [1..n -> Labels] : n \in 0..MaxFaultyTier }

ItemStates == {"ok", "no_wav", "bad_grid", "bad_wav"}

InitLoad ==
    /\ \E n \in 0..MaxWords :
          /\ corpus \in [1..n -> FaultyTiers]
          /\ faults \in [1..n -> ItemStates]
    /\ loader \in {"mem", "disk"}
    /\ grid_dict = {}
    /\ phoneme_dict = << >>
    /\ stem = 1
    /\ interval = 0
    /\ pre = None
    /\ pcBuild = "word"

NextLoad ==
    \/ BeginWord
    \/ SkipNoWav
    \/ SkipBadGrid
    \/ SkipBadWav
    \/ BuildInterval
    \/ EndWord
    \/ EndBuild

InitSpecLoad == InitLoad /\ IdleTypeme /\ IdleSel /\ IdleNaive /\ IdleSynth

SpecLoad == InitSpecLoad /\ [][NextLoad]_vars

InitSpecBuild == InitBuild /\ IdleTypeme /\ IdleSel /\ IdleNaive /\ IdleSynth

SpecBuild == InitSpecBuild /\ [][NextBuild]_vars

\* ------------------------------------------------------------------------
\* Typeme.similarity as a state machine
\* ------------------------------------------------------------------------
NextTypeme == Similarity

InitSpecTypeme == InitTypeme /\ IdleBuild /\ IdleSel /\ IdleNaive /\ IdleSynth

SpecTypeme == InitSpecTypeme /\ [][NextTypeme]_vars

\* --- claims about the build ---

\* Every (group, position) of the inventory.
Positions ==
    UNION { { [group |-> g, k |-> k] : k \in 1..Len(phoneme_dict[g]) }
            : g \in DOMAIN phoneme_dict }

InventoryAt(w, i) ==
    { e \in Positions :
        /\ phoneme_dict[e.group][e.k].word = w
        /\ phoneme_dict[e.group][e.k].interval = i }

Instances == phoneme_dict[selTarget]

Known == selMethod # "" /\ selTarget \in DOMAIN phoneme_dict

\* A label that resolves to a node of the tree, and that node.
InTree(label) == \E node \in Nodes : tname[node] = label

NodeOf(label) == CHOOSE node \in Nodes : tname[node] = label

\* One side of the score as the specification words it.
SideScore(target_label, instance_label) ==
    IF InTree(target_label)
    THEN IF InTree(instance_label)
         THEN DeepestSharedDepth(NodeOf(target_label), NodeOf(instance_label))
         ELSE -1
    ELSE 0

Score(k) == SideScore(selPre, Instances[k].pre)
              + SideScore(selNex, Instances[k].nex)

\* Smallest intonation of a set of positions, earliest on ties.
Winner(S) ==
    LET inst == Instances
    IN  CHOOSE k \in S : \A j \in S :
            \/ inst[k].intonation < inst[j].intonation
            \/ inst[k].intonation = inst[j].intonation /\ k <= j

\* C2: choose_dual_similarity returns the instance of maximal score, of
\* smallest intonation among those, and the earliest among those.
C2_DualSimilarityBest ==
    (Known /\ selMethod = "dual_similarity") =>
        /\ selResult \in 1..Len(Instances)
        /\ LET inst == Instances
               top  == Score(selResult)
           IN  \A j \in 1..Len(inst) :
                 LET score == Score(j)
                 IN  /\ score <= top
                     /\ score = top =>
                         \/ inst[selResult].intonation < inst[j].intonation
                         \/ /\ inst[selResult].intonation
                                 = inst[j].intonation
                            /\ selResult <= j

\* Three candidates: the winner is the last one, it ties on score with an
\* earlier one of larger intonation, and another one scores lower.
C2_Witness ==
    /\ Known /\ selMethod = "dual_similarity"
    /\ Len(Instances) = 3
    /\ selResult = 3
    /\ \E j \in 1..2 : /\ Score(j) = Score(3)
                       /\ Instances[j].intonation > Instances[3].intonation
    /\ \E j \in 1..2 : /\ Score(j) < Score(3)
                       /\ Instances[j].intonation <= Instances[3].intonation

BothSet == { k \in 1..Len(Instances) :
               Instances[k].pre = selPre /\ Instances[k].nex = selNex }
PreSet  == { k \in 1..Len(Instances) :
               Instances[k].pre = selPre /\ Instances[k].nex # selNex }
NexSet  == { k \in 1..Len(Instances) :
               Instances[k].pre # selPre /\ Instances[k].nex = selNex }
NoneSet == { k \in 1..Len(Instances) :
               Instances[k].pre # selPre /\ Instances[k].nex # selNex }

\* C3 (as claimed): choose_dual_equality returns the winner of the first
\* non-empty bucket in the fixed order both, pre_only, nex_only, none.
C3_FixedPriority ==
    (Known /\ selMethod = "dual_equality") =>
        selResult = IF BothSet # {} THEN Winner(BothSet)
                    ELSE IF PreSet # {} THEN Winner(PreSet)
                    ELSE IF NexSet # {} THEN Winner(NexSet)
                    ELSE Winner(NoneSet)

\* C3 (amended): as above, except that when both is empty and pre_only and
\* nex_only are both non-empty, the nex_only winner is returned if its
\* intonation is strictly smaller than the pre_only winner's.
C3_PriorityWithIntonation ==
    (Known /\ selMethod = "dual_equality") =>
        selResult =
            IF BothSet # {} THEN Winner(BothSet)
            ELSE IF PreSet # {} /\ NexSet # {}
            THEN IF Instances[Winner(NexSet)].intonation
                      < Instances[Winner(PreSet)].intonation
                 THEN Winner(NexSet)
                 ELSE Winner(PreSet)
            ELSE IF PreSet # {} THEN Winner(PreSet)
            ELSE IF NexSet # {} THEN Winner(NexSet)
            ELSE Winner(NoneSet)

\* both is empty, pre_only holds two candidates and nex_only one of smaller
\* intonation, which is returned.
C3_Witness ==
    /\ Known /\ selMethod = "dual_equality"
    /\ BothSet = {}
    /\ Cardinality(PreSet) = 2
    /\ NexSet # {}
    /\ selResult \in NexSet
    /\ Instances[selResult].intonation < Instances[Winner(PreSet)].intonation

\* C4: under dual-equality selection (either selector), if some instance
\* matches both labels the returned one does; if exactly one does, it is
\* returned whatever the intonations of the others.
C4_BothWins ==
    (Known /\ selMethod \in {"dual_equality", "choose_phoneme"}
           /\ BothSet # {}) =>
        /\ selResult \in BothSet
        /\ Cardinality(BothSet) = 1 => BothSet = {selResult}

\* The only instance matching both labels is the last of three and has the
\* largest intonation.
C4_Witness ==
    /\ Known /\ selMethod = "dual_equality"
    /\ Len(Instances) = 3
    /\ BothSet = {3}
    /\ PreSet # {} /\ NexSet # {}
    /\ \A j \in 1..2 : Instances[j].intonation < Instances[3].intonation
    /\ selResult = 3

\* ------------------------------------------------------------------------
\* jamcoder.py: __main__, argument check and synthesis loop
\* ------------------------------------------------------------------------
\* Exact fractions <<num, den>> stand for the float64 samples and weights.
RECURSIVE GCD(_, _)
GCD(a, b) == IF b = 0 THEN a ELSE GCD(b, a % b)

RatNorm(q) ==
    IF q[1] = 0 THEN <<0, 1>>
    ELSE LET g == GCD(q[1], q[2]) IN <<q[1] \div g, q[2] \div g>>

RatMul(p, q) == RatNorm(<<p[1] * q[1], p[2] * q[2]>>)

RatAdd(p, q) == RatNorm(<<p[1] * q[2] + q[1] * p[2], p[2] * q[2]>>)

\* --enable-crossfade is store_true with default=True: always set.
crossfade == TRUE

\* float('nan'), which type=float of --crossfade-overlap accepts.
NaN == <<0, 0>>

\* Values given to --crossfade-overlap: -0.5, 0.0, 0.5, 1.0, 1.5 and nan.
OverlapValues == {<<0 - 1, 2>>, <<0, 1>>, <<1, 2>>, <<1, 1>>, <<3, 2>>, NaN}

\* crossfade_overlap < 0.0 or crossfade_overlap > 1.0 (line 158); every
\* comparison with nan is False.
OutOfBounds(v) == v # NaN /\ (v[1] < 0 \/ v[1] > v[2])

\* Annotated interval lengths in samples (wav_end - wav_start).
SliceLengths == {5 * k : k \in 0..MaxFives}

\* Sample t of the waveform slice of the unit at position i: the slices are
\* arbitrary audio, here pairwise distinct non-zero values.
Sample(i, t) == <<100 * (i + 1) + t, 1>>

\* wav_seg = wav[wav_start:wav_end]
WavSeg(i, length) == [t \in 1..length |-> Sample(i, t - 1)]

\* np.zeros(n)
Zeros(n) == [t \in 1..n |-> <<0, 1>>]

\* a[from:] of a 0-based slice
SliceFrom(a, from) ==
    IF from >= Len(a) THEN << >> ELSE SubSeq(a, from + 1, Len(a))

\* a[0:to]
SliceTo(a, to) == SubSeq(a, 1, Min2(to, Len(a)))

\* fade(t, length) = ((length - t) / length, t / length)
fade(t, length) == << <<length - t, length>>, <<t, length>> >>

\* int(np.floor(0.1 * n)) for n >= 0
Tenth(n) == n \div 10

\* Lines 218-221.
CrossfadeLength(prev_len, len) ==
    IF prev_len < len THEN Tenth(prev_len) ELSE Tenth(len)

\* int(np.floor((1 - crossfade_overlap) * crossfade_length))
PadLength(v, cl) == ((v[2] - v[1]) * cl) \div v[2]

\* The loop of lines 229-233 from t on: a negative index wraps around
\* (numpy), one below -len(synth_wav) raises IndexError, and so does
\* wav_overlap[t] past the end of wav_overlap.
RECURSIVE MixLoop(_, _, _, _)
MixLoop(w, wav_overlap, cl, t) ==
    IF t >= cl THEN [ok |-> TRUE, wav |-> w]
    ELSE LET idx == Len(w) - cl + t
             pos == IF idx < 0 THEN idx + Len(w) + 1 ELSE idx + 1
         IN  IF idx < 0 - Len(w) \/ t >= Len(wav_overlap)
             THEN [ok |-> FALSE, wav |-> w]
             ELSE MixLoop(
                    [w EXCEPT ![pos] =
                        RatAdd(RatMul(@, fade(t, cl)[1]),
                               RatMul(wav_overlap[t + 1], fade(t, cl)[2]))],
                    wav_overlap, cl, t + 1)

\* Lines 223-234 for the unit at position i: the outcome of the mixing loop
\* and the output after the final concatenation.
Crossfade(w, i, len, cl, v) ==
    LET wav_seg == WavSeg(i, len)
        wav_overlap == SliceTo(wav_seg, cl)
        padded == Zeros(PadLength(v, cl)) \o wav_seg
        mixed == MixLoop(w, wav_overlap, cl, 0)
    IN  [ok |-> mixed.ok, wav |-> mixed.wav \o SliceFrom(padded, cl)]

\* What the start-up of __main__ (lines 158-177) leaves alone.
loopVars == <<crossfade_overlap, synth_n, synth_i, synth_wav, source_lengths,
              wav_length, prev_wav_length, crossfade_length, synth_branch>>

\* What the synthesis loop leaves alone.
startVars == <<load_result, build_runs, dump_attempts>>

\* The run starts with the parsed arguments; the sentence yields
\* len(source_phonemes) units.
InitSynth ==
    /\ crossfade_overlap \in OverlapValues
    /\ synth_n \in 0..MaxUnits
    /\ synth_i = 0
    /\ synth_wav = << >>
    /\ source_lengths = << >>
    /\ wav_length = 0
    /\ prev_wav_length = 0
    /\ crossfade_length = 0
    /\ synth_branch = ""
    /\ load_result = ""
    /\ build_runs = 0
    /\ dump_attempts = 0
    /\ pcSynth = "args"

\* Lines 158-160: the overlap is out of bounds, exit(-1).
OverlapRejected ==
    /\ pcSynth = "args"
    /\ OutOfBounds(crossfade_overlap)
    /\ pcSynth' = "exit"
    /\ UNCHANGED <<loopVars, startVars>>
    /\ UNCHANGED <<typemeVars, buildVars, selVars, naiveVars>>

\* Lines 158-164: the overlap passes the check, the paths are computed.
OverlapAccepted ==
    /\ pcSynth = "args"
    /\ ~OutOfBounds(crossfade_overlap)
    /\ pcSynth' = "load"
    /\ UNCHANGED <<loopVars, startVars>>
    /\ UNCHANGED <<typemeVars, buildVars, selVars, naiveVars>>

\* Variant of the snapshot load that rebuilds the voice although the pickle
\* was loaded.
SnapshotLoadedRebuilds ==
    /\ pcSynth = "load"
    /\ load_result' = "ok"
    /\ build_runs' = build_runs + 1
    /\ pcSynth' = "select"
    /\ UNCHANGED <<loopVars, dump_attempts>>
    /\ UNCHANGED <<typemeVars, buildVars, selVars, naiveVars>>

\* Lines 166-169: the pickle opens and loads, voice is the snapshot.
SnapshotLoaded ==
    /\ pcSynth = "load"
    /\ load_result' = "ok"
    /\ pcSynth' = "select"
    /\ UNCHANGED <<loopVars, build_runs, dump_attempts>>
    /\ UNCHANGED <<typemeVars, buildVars, selVars, naiveVars>>

\* Lines 166-171: open or pickle.load raises (file missing or corrupt), the
\* bare except takes over.
SnapshotLoadFails ==
    /\ pcSynth = "load"
    /\ load_result' = "failed"
    /\ pcSynth' = "build"
    /\ UNCHANGED <<loopVars, build_runs, dump_attempts>>
    /\ UNCHANGED <<typemeVars, buildVars, selVars, naiveVars>>

\* Line 172 with a voice directory that does not exist: PhonemeMemLoader
\* prints an error and calls exit(-1) (dataloader.py 187-190).
VoiceMissing ==
    /\ pcSynth = "build"
    /\ pcSynth' = "exit"
    /\ UNCHANGED <<loopVars, startVars>>
    /\ UNCHANGED <<typemeVars, buildVars, selVars, naiveVars>>

\* Line 172: PhonemeMemLoader(voice_path) builds the inventory; the build
\* is the only caller of f0_heuristic.
VoiceBuilt ==
    /\ pcSynth = "build"
    /\ build_runs' = build_runs + 1
    /\ pcSynth' = "dump"
    /\ UNCHANGED <<loopVars, load_result, dump_attempts>>
    /\ UNCHANGED <<typemeVars, buildVars, selVars, naiveVars>>

\* Lines 173-174: the rebuilt voice is written to the pickle.
SnapshotSaved ==
    /\ pcSynth = "dump"
    /\ dump_attempts' = dump_attempts + 1
    /\ pcSynth' = "select"
    /\ UNCHANGED <<loopVars, load_result, build_runs>>
    /\ UNCHANGED <<typemeVars, buildVars, selVars, naiveVars>>

\* Lines 173-174: open(pickle_path, 'wb') or pickle.dump raises inside the
\* except block, nothing catches it, the run ends.
SnapshotSaveFails ==
    /\ pcSynth = "dump"
    /\ dump_attempts' = dump_attempts + 1
    /\ pcSynth' = "OSError"
    /\ UNCHANGED <<loopVars, load_result, build_runs>>
    /\ UNCHANGED <<typemeVars, buildVars, selVars, naiveVars>>

\* Lines 176-179: init_typemes and naive_synthesis return the units, the
\* loop begins with an empty output.
UnitsSelected ==
    /\ pcSynth = "select"
    /\ pcSynth' = "loop"
    /\ UNCHANGED <<loopVars, startVars>>
    /\ UNCHANGED <<typemeVars, buildVars, selVars, naiveVars>>

\* Line 177: naive_synthesis ends on the KeyError of an unknown phoneme.
SelectionKeyError ==
    /\ pcSynth = "select"
    /\ pcSynth' = "KeyError"
    /\ UNCHANGED <<loopVars, startVars>>
    /\ UNCHANGED <<typemeVars, buildVars, selVars, naiveVars>>

\* Iteration i = 0 (line 235-236): the slice is appended as is.
SynthFirst ==
    /\ pcSynth = "loop"
    /\ synth_i < synth_n
    /\ ~(crossfade /\ synth_i # 0)
    /\ \E len \in SliceLengths :
          /\ wav_length' = len
          /\ synth_wav' = synth_wav \o WavSeg(synth_i, len)
          /\ source_lengths' = Append(source_lengths, len)
    /\ synth_i' = synth_i + 1
    /\ synth_branch' = "append"
    /\ UNCHANGED <<crossfade_overlap, synth_n, prev_wav_length,
                   crossfade_length, pcSynth>>
    /\ UNCHANGED <<startVars, typemeVars, buildVars, selVars, naiveVars>>

\* Iteration i > 0 in which the tier of the unit's word has no interval at
\* prev_instance.interval (lines 206-212): IndexError is caught and the
\* slice is appended without crossfade.
SynthExcept ==
    /\ pcSynth = "loop"
    /\ synth_i < synth_n
    /\ crossfade /\ synth_i # 0
    /\ \E len \in SliceLengths :
          /\ wav_length' = len
          /\ synth_wav' = synth_wav \o WavSeg(synth_i, len)
          /\ source_lengths' = Append(source_lengths, len)
    /\ synth_i' = synth_i + 1
    /\ synth_branch' = "except"
    /\ UNCHANGED <<crossfade_overlap, synth_n, prev_wav_length,
                   crossfade_length, pcSynth>>
    /\ UNCHANGED <<startVars, typemeVars, buildVars, selVars, naiveVars>>

\* What grid['phonetic'][prev_instance.interval] of the unit's word holds
\* (line 209): the previous unit's own interval if both units come from the
\* same word, and otherwise whatever interval the unit's word has there.
PrevGridLengths(same_word) ==
    IF same_word THEN {source_lengths[synth_i]} ELSE SliceLengths

\* Iteration i > 0 that crossfades (lines 206-234) and completes.
SynthCrossfade ==
    /\ pcSynth = "loop"
    /\ synth_i < synth_n
    /\ crossfade /\ synth_i # 0
    /\ crossfade_overlap # NaN
    /\ \E len \in SliceLengths, same_word \in BOOLEAN :
       \E prev_len \in PrevGridLengths(same_word) :
          LET cl == CrossfadeLength(prev_len, len)
              out == Crossfade(synth_wav, synth_i, len, cl, crossfade_overlap)
          IN  /\ out.ok
              /\ wav_length' = len
              /\ prev_wav_length' = prev_len
              /\ crossfade_length' = cl
              /\ synth_wav' = out.wav
              /\ source_lengths' = Append(source_lengths, len)
    /\ synth_i' = synth_i + 1
    /\ synth_branch' = "crossfade"
    /\ UNCHANGED <<crossfade_overlap, synth_n, pcSynth>>
    /\ UNCHANGED <<startVars, typemeVars, buildVars, selVars, naiveVars>>

\* Iteration i > 0 whose mixing loop raises IndexError (lines 229-233):
\* nothing catches it, the run ends without output.
SynthIndexError ==
    /\ pcSynth = "loop"
    /\ synth_i < synth_n
    /\ crossfade /\ synth_i # 0
    /\ crossfade_overlap # NaN
    /\ \E len \in SliceLengths, same_word \in BOOLEAN :
       \E prev_len \in PrevGridLengths(same_word) :
          LET cl == CrossfadeLength(prev_len, len)
              out == Crossfade(synth_wav, synth_i, len, cl, crossfade_overlap)
          IN  /\ ~out.ok
              /\ wav_length' = len
              /\ prev_wav_length' = prev_len
              /\ crossfade_length' = cl
    /\ synth_branch' = "crossfade"
    /\ pcSynth' = "IndexError"
    /\ UNCHANGED <<crossfade_overlap, synth_n, synth_i, synth_wav,
                   source_lengths>>
    /\ UNCHANGED <<startVars, typemeVars, buildVars, selVars, naiveVars>>

\* Iteration i > 0 that reaches line 226 with overlap nan:
\* int(np.floor(nan)) raises ValueError, nothing catches it.
SynthValueError ==
    /\ pcSynth = "loop"
    /\ synth_i < synth_n
    /\ crossfade /\ synth_i # 0
    /\ crossfade_overlap = NaN
    /\ \E len \in SliceLengths, same_word \in BOOLEAN :
       \E prev_len \in PrevGridLengths(same_word) :
          /\ wav_length' = len
          /\ prev_wav_length' = prev_len
          /\ crossfade_length' = CrossfadeLength(prev_len, len)
    /\ synth_branch' = "crossfade"
    /\ pcSynth' = "ValueError"
    /\ UNCHANGED <<crossfade_overlap, synth_n, synth_i, synth_wav,
                   source_lengths>>
    /\ UNCHANGED <<startVars, typemeVars, buildVars, selVars, naiveVars>>

\* Line 238: write('synth.wav', sr, synth_wav)
SynthWrite ==
    /\ pcSynth = "loop"
    /\ synth_i >= synth_n
    /\ pcSynth' = "written"
    /\ UNCHANGED <<crossfade_overlap, synth_n, synth_i, synth_wav,
                   source_lengths, wav_length, prev_wav_length,
                   crossfade_length, synth_branch>>
    /\ UNCHANGED <<startVars, typemeVars, buildVars, selVars, naiveVars>>

NextSynth ==
    \/ OverlapRejected
    \/ OverlapAccepted
    \/ SnapshotLoaded
    \/ SnapshotLoadFails
    \/ VoiceMissing
    \/ VoiceBuilt
    \/ SnapshotSaved
    \/ SnapshotSaveFails
    \/ UnitsSelected
    \/ SelectionKeyError
    \/ SynthFirst
    \/ SynthExcept
    \/ SynthCrossfade
    \/ SynthIndexError
    \/ SynthValueError
    \/ SynthWrite

InitSpecSynth ==
    InitSynth /\ StandardTypemes /\ IdleBuild /\ IdleSel /\ IdleNaive

SpecSynth == InitSpecSynth /\ [][NextSynth]_vars

\* ------------------------------------------------------------------------
\* Claims about the synthesis loop
\* ------------------------------------------------------------------------
\* C9: after every crossfading iteration for a unit i > 0, crossfade_length
\* is floor(0.1 * min(P, C)), P the length of the slice appended for unit
\* i-1 (from that unit's own word) and C the length of unit i's slice.
C9_CrossfadeLengthOfOwnSlices ==
    (synth_branch = "crossfade" /\ pcSynth \in {"loop", "written"}) =>
        crossfade_length =
            Tenth(Min2(source_lengths[synth_i - 1], source_lengths[synth_i]))

\* The output the claim C10 describes for old output O, slice S of the unit
\* at position i and crossfade length cl: O[0..L-cl), the cl mixed samples
\* O[L-cl+t]*(cl-t)/cl + S'[t]*t/cl, then S'[cl..], with S' the padded slice.
StatedCrossfade(O, i, len, cl, v) ==
    LET padded == Zeros(PadLength(v, cl)) \o WavSeg(i, len)
        L == Len(O)
    IN  SubSeq(O, 1, L - cl)
        \o [t \in 1..cl |->
               RatAdd(RatMul(O[L - cl + t], <<cl - (t - 1), cl>>),
                      RatMul(padded[t], <<t - 1, cl>>))]
        \o SliceFrom(padded, cl)

\* C10: a crossfading iteration with crossfade_length = cl > 0 turns the
\* old output O into O[0..L-cl), the cl samples mixed from the tail of O
\* and the head of the padded slice S', and the rest of S'; the new length
\* is L + padLen + C - cl.
C10_CrossfadeOutput ==
    [][(/\ pcSynth = "loop"
        /\ synth_i' = synth_i + 1
        /\ synth_branch' = "crossfade"
        /\ crossfade_length' > 0
        /\ crossfade_length' <= Len(synth_wav))
       => /\ synth_wav' = StatedCrossfade(synth_wav, synth_i, wav_length',
                                          crossfade_length', crossfade_overlap)
          /\ Len(synth_wav') =
                Len(synth_wav) + wav_length' - crossfade_length'
                + PadLength(crossfade_overlap, crossfade_length')]_vars

\* A crossfading iteration that completes: the step from the old output to
\* the new one, with crossfade_length' > 0 samples inside the old output.
CrossfadeStep ==
    /\ pcSynth = "loop"
    /\ synth_i' = synth_i + 1
    /\ synth_branch' = "crossfade"
    /\ crossfade_length' > 0
    /\ crossfade_length' <= Len(synth_wav)

\* C11: with overlap 0.0 and crossfade_length > 0 the last crossfade_length
\* samples of the old output are only faded out, they receive nothing from
\* the current unit's audio; with overlap 1.0 no silence is inserted, the
\* output grows by the slice minus the overlapped samples.
C11_OverlapExtremes ==
    [][CrossfadeStep =>
        LET cl == crossfade_length'
            L == Len(synth_wav)
        IN  /\ crossfade_overlap = <<0, 1>> =>
                \A t \in 0..(cl - 1) :
                    synth_wav'[L - cl + t + 1] =
                        RatMul(synth_wav[L - cl + t + 1], <<cl - t, cl>>)
            /\ crossfade_overlap = <<1, 1>> =>
                /\ Len(synth_wav') = L + wav_length' - cl
                /\ SubSeq(synth_wav', L + 1, Len(synth_wav')) =
                      SliceFrom(WavSeg(synth_i, wav_length'), cl)]_vars

\* C12: an iteration for a unit i > 0 whose crossfade_length evaluates to 0
\* is a no-op crossfade: the run goes on (the mixing loop and fade are not
\* entered, nothing is raised), no sample of the old output changes, no
\* silence is added, and the new output is the old one followed by the
\* unit's raw slice.
C12_ZeroCrossfadeIsNoOp ==
    [][(/\ pcSynth = "loop"
        /\ pcSynth' # "written"
        /\ synth_branch' = "crossfade"
        /\ crossfade_length' = 0)
       => /\ pcSynth' = "loop"
          /\ synth_i' = synth_i + 1
          /\ synth_wav' = synth_wav \o WavSeg(synth_i, wav_length')]_vars

\* C13: an overlap below 0.0 or above 1.0 ends the run before the voice is
\* loaded or built, before any unit is selected and before any output sample
\* exists, and only such an overlap does; so every iteration that reaches
\* the crossfade has a padding length with 0 <= padLen <= crossfade_length.
C13_OverlapChecked ==
    /\ OutOfBounds(crossfade_overlap) =>
          /\ pcSynth \in {"args", "exit"}
          /\ load_result = "" /\ build_runs = 0 /\ dump_attempts = 0
          /\ synth_i = 0 /\ synth_wav = << >>
    /\ synth_branch = "crossfade" =>
          /\ crossfade_overlap # NaN
          /\ pcSynth # "ValueError"
          /\ PadLength(crossfade_overlap, crossfade_length) >= 0
          /\ PadLength(crossfade_overlap, crossfade_length)
                <= crossfade_length

\* Stages of __main__ from unit selection on.
FromSelection ==
    {"select", "loop", "written", "KeyError", "IndexError", "ValueError"}

\* C17: the voice is built (the only place f0_heuristic is called from) if
\* and only if loading the pickle failed: a loaded snapshot is followed by
\* no build and no save before selection, and a failed load by exactly one
\* build and one attempt to save it before selection starts.
C17_BuildIffLoadFails ==
    /\ build_runs > 0 => load_result = "failed"
    /\ dump_attempts > 0 => build_runs = 1
    /\ load_result = "ok" => build_runs = 0 /\ dump_attempts = 0
    /\ (load_result = "failed" /\ pcSynth \in FromSelection) =>
          build_runs = 1 /\ dump_attempts = 1
    /\ pcSynth \in FromSelection => load_result \in {"ok", "failed"}

\* The pickle could not be loaded, the voice was rebuilt and saved, and the
\* loop has appended its first unit.
C17_Witness ==
    /\ load_result = "failed"
    /\ build_runs = 1
    /\ dump_attempts = 1
    /\ pcSynth = "loop"
    /\ synth_i = 1

\* ------------------------------------------------------------------------
\* typemes.py: construction, set_depth and adopt
\* ------------------------------------------------------------------------
\* depth arguments given to the constructor
ConstructorDepths == {0, 1}

\* len(spawn) given to the constructor
SpawnCounts == {0, 1}

\* No Typeme has been constructed.
InitAdopt ==
    /\ tn = 0
    /\ tparent = << >>
    /\ tname = << >>
    /\ tdepth = << >>
    /\ tchildren = << >>
    /\ adopts = 0
    /\ pcTypeme = "ok"
    /\ simA = NoNode
    /\ simB = NoNode
    /\ simRes = NoResult

\* Typeme(name, depth, spawn=...) with the default parent None: the node and
\* one child per spawned name, each at depth + 1 with parent = the node.
Construct ==
    \E depth \in ConstructorDepths, k \in SpawnCounts :
        /\ pcTypeme = "ok"
        /\ tn + 1 + k <= MaxTypemes
        /\ tn' = tn + 1 + k
        /\ tparent' = tparent \o <<NoNode>> \o [j \in 1..k |-> tn + 1]
        /\ tdepth' = tdepth \o <<depth>> \o [j \in 1..k |-> depth + 1]
        /\ tchildren' = tchildren \o << [j \in 1..k |-> tn + 1 + j] >>
                                  \o [j \in 1..k |-> << >>]
        /\ tname' = tname \o [j \in 1..(k + 1) |-> TypemeNames[tn + j]]
        /\ UNCHANGED <<adopts, pcTypeme, simA, simB, simRes>>
        /\ UNCHANGED <<buildVars, selVars, naiveVars, synthVars>>

\* self.set_depth(depth) on the depths dep, with the children lists ch; the
\* call stack may grow by fuel more frames. A stack deeper than the number
\* of nodes runs around a cycle of children lists, where the early return
\* never applies: the recursion ends in RecursionError (ok = FALSE).
RECURSIVE set_depth(_, _, _, _, _), set_depth_children(_, _, _, _, _, _)
set_depth(dep, ch, self, depth, fuel) ==
    IF dep[self] = depth THEN [ok |-> TRUE, dep |-> dep]
    ELSE IF fuel = 0 THEN [ok |-> FALSE, dep |-> dep]
    ELSE set_depth_children([dep EXCEPT ![self] = depth], ch, self, 1,
                            depth + 1, fuel - 1)

\* for child in self.children: child.set_depth(depth + 1), from child c on
set_depth_children(dep, ch, self, c, depth, fuel) ==
    IF c > Len(ch[self]) THEN [ok |-> TRUE, dep |-> dep]
    ELSE LET r == set_depth(dep, ch, ch[self][c], depth, fuel)
         IN  IF ~r.ok THEN r
             ELSE set_depth_children(r.dep, ch, self, c + 1, depth, fuel)

\* self.adopt(children) from element i of the list on, on the tree t =
\* (par, dep, ch), with room for fuel frames on the call stack.
RECURSIVE adopt(_, _, _, _, _)
adopt(t, self, children, i, fuel) ==
    IF i > Len(children) THEN t
    ELSE LET child == children[i]
             par == [t.par EXCEPT ![child] = self]
             r == set_depth(t.dep, t.ch, child, t.dep[self] + 1, fuel)
         IN  IF ~r.ok
             THEN [ok |-> FALSE, par |-> par, dep |-> r.dep, ch |-> t.ch]
             ELSE adopt([ok |-> TRUE, par |-> par, dep |-> r.dep,
                         ch |-> [t.ch EXCEPT ![self] = Append(@, child)]],
                        self, children, i + 1, fuel)

\* The tree as the variables hold it.
Tree == [ok |-> TRUE, par |-> tparent, dep |-> tdepth, ch |-> tchildren]

\* Frames left on the call stack when adopt is called: more than there are
\* nodes; where exactly a runaway recursion is cut off is not known.
StackRoom == (tn + 1)..(2 * tn + 1)

\* Lists of one or two existing nodes.
AdoptLists == UNION {[1..n -> 1..tn] : n \in 1..2}

\* A call self.adopt(children) that returns.
Adopt ==
    \E self \in 1..tn, children \in AdoptLists :
        LET t == adopt(Tree, self, children, 1, tn + 1)
        IN  /\ pcTypeme = "ok"
            /\ adopts < MaxAdopts
            /\ t.ok
            /\ tparent' = t.par
            /\ tdepth' = t.dep
            /\ tchildren' = t.ch
            /\ adopts' = adopts + 1
            /\ UNCHANGED <<tn, tname, pcTypeme, simA, simB, simRes>>
            /\ UNCHANGED <<buildVars, selVars, naiveVars, synthVars>>

\* A call self.adopt(children) in which set_depth raises RecursionError:
\* the parent of the child is already set, the child is not appended, and
\* the nodes on the runaway path keep the depth written last.
AdoptRecursionError ==
    \E self \in 1..tn, children \in AdoptLists, fuel \in StackRoom :
        LET t == adopt(Tree, self, children, 1, fuel)
        IN  /\ pcTypeme = "ok"
            /\ adopts < MaxAdopts
            /\ ~t.ok
            /\ tparent' = t.par
            /\ tdepth' = t.dep
            /\ tchildren' = t.ch
            /\ adopts' = adopts + 1
            /\ pcTypeme' = "RecursionError"
            /\ UNCHANGED <<tn, tname, simA, simB, simRes>>
            /\ UNCHANGED <<buildVars, selVars, naiveVars, synthVars>>

NextAdopt == Construct \/ Adopt \/ AdoptRecursionError

InitSpecAdopt == InitAdopt /\ IdleBuild /\ IdleSel /\ IdleNaive /\ IdleSynth

SpecAdopt == InitSpecAdopt /\ [][NextAdopt]_vars

\* C14: after any sequence of constructions and adopt calls every adopt
\* call has returned, and every node c listed in the children of a node p
\* has parent p and depth p.depth + 1.
C14_DepthInvariant ==
    /\ pcTypeme = "ok"
    /\ \A p \in 1..tn : \A c \in 1..Len(tchildren[p]) :
          /\ tparent[tchildren[p][c]] = p
          /\ tdepth[tchildren[p][c]] = tdepth[p] + 1

\* ------------------------------------------------------------------------
\* Claims about the loaders
\* ------------------------------------------------------------------------
\* The voice directory without its faulty items: the stems of the good
\* items are kept, a faulty item has nothing in it.
GoodCorpus ==
    [w \in 1..Len(corpus) |-> IF faults[w] = "ok" THEN corpus[w] ELSE << >>]

\* The interval loop and the file loop of PhonemeDiskLoader.
RECURSIVE DiskScanWord(_, _, _, _, _)
DiskScanWord(dict, tier, word, ival, p) ==
    IF ival >= Len(tier) THEN dict
    ELSE DiskScanWord(DiskScanInterval(dict, word, ival, p, tier[ival + 1]),
                      tier, word, ival + 1, strip_stress(tier[ival + 1]))

RECURSIVE DiskScanCorpus(_, _, _)
DiskScanCorpus(dict, c, word) ==
    IF word > Len(c) THEN dict
    ELSE DiskScanCorpus(DiskScanWord(dict, c[word], word, 0, None),
                        c, word + 1)

C16_LoadersAgree ==
    (pcBuild = "done" /\ loader = "disk") =>
        LET mem == ScanCorpus(<< >>, GoodCorpus, 1)
        IN  /\ DOMAIN phoneme_dict = DOMAIN mem
            /\ \A name \in DOMAIN phoneme_dict :
                  /\ Len(phoneme_dict[name]) = Len(mem[name])
                  /\ \A k \in 1..Len(phoneme_dict[name]) :
                        /\ phoneme_dict[name][k].word = mem[name][k].word
                        /\ phoneme_dict[name][k].interval
                              = mem[name][k].interval
                        /\ phoneme_dict[name][k].pre = mem[name][k].pre
                        /\ phoneme_dict[name][k].nex = mem[name][k].nex

\* C18: choose.choose_dual_equality and jamcoder.choose_phoneme return the
\* same instance for every inventory, target and (pre, nex) context: the
\* result of a call of either equals what the other returns for the same
\* arguments.
C18_SelectorsAgree ==
    /\ selMethod = "dual_equality" =>
          selResult = choose_phoneme(selTarget, selPre, selNex)
    /\ selMethod = "choose_phoneme" =>
          selResult = choose_dual_equality(selTarget, selPre, selNex)

\* C19: in every iteration that reaches the crossfade, crossfade_length is
\* at most the length of the output so far and at most the length of the
\* unit's slice, so the mixing loop only touches the indices
\* len(synth_wav) - crossfade_length + t inside the output and raises
\* nothing.
C19_CrossfadeInRange ==
    [][(/\ pcSynth = "loop"
        /\ pcSynth' \in {"loop", "IndexError"}
        /\ synth_branch' = "crossfade")
       => /\ crossfade_length' <= Len(synth_wav)
          /\ crossfade_length' <= wav_length'
          /\ pcSynth' = "loop"]_vars

\* C20: the 'no neighbour' context naive_synthesis passes at the first
\* target position (pre) and at the last one (nex) is the marker the
\* inventory build stored at the edges of a word: at the first position a
\* word-initial instance whose nex is the target's nex is in the both
\* bucket, and at the last position so is a word-final instance whose pre is
\* the target's pre.
C20_EdgeMarkerMatches ==
    (/\ pcNaive = "loop"
     /\ naive_i < Len(target_phonemes)
     /\ NaiveCurr \in DOMAIN phoneme_dict)
    => LET instances == phoneme_dict[NaiveCurr]
           b == EqualityScan(instances, naive_pre, NaiveNex, 1, NoBuckets)
       IN  /\ (/\ naive_i = 0
               /\ \E k \in 1..Len(instances) :
                     /\ instances[k].interval = 0
                     /\ instances[k].nex = NaiveNex)
              => b.both # ReturnsNone
           /\ (/\ naive_i = Len(target_phonemes) - 1
               /\ \E k \in 1..Len(instances) :
                     /\ instances[k].interval
                           = Len(corpus[instances[k].word]) - 1
                     /\ instances[k].pre = naive_pre)
              => b.both # ReturnsNone

====
